---- MODULE Spec2Model ----
\* Update reconciliation engine of the ControlPlaneMachineSet controller
\* (package controlplanemachineset): the strategy dispatcher, the RollingUpdate
\* engine, its classifiers and its surge accounting, together with the store of
\* machines the machine provider acts on.
EXTENDS Integers, Sequences, FiniteSets, TLC

\* ---------------------------------------------------------------- bounds

\* Largest index used as a key of the indexed observation (the smallest is -1).
MaxIndex == 1

\* Largest number of machines an initial observation holds, over all indices.
MaxMachines == 2

Indices == (0 - 1)..MaxIndex

\* Desired replica counts tried; <<>> is the nil pointer (spec.replicas unset).
ReplicasValues == {<<>>, <<1>>, <<2>>}

\* ---------------------------------------------------------------- data

\* machineproviders.MachineInfo, as far as the engine reads it: Ready,
\* NeedsUpdate and MachineRef.ObjectMeta.DeletionTimestamp # nil.
MachineInfo == [ready : BOOLEAN, needsUpdate : BOOLEAN, deleted : BOOLEAN]

RollingUpdate == "RollingUpdate"
OnDelete == "OnDelete"
Recreate == "Recreate"
\* A strategy value that is none of the three known ones.
Bogus == "Bogus"
Strategies == {RollingUpdate, OnDelete, Recreate, Bogus}

createdReplacement == "Created replacement machine"
errorCreatingMachine == "Error creating machine"
errorDeletingMachine == "Error deleting machine"
invalidStrategyMessage == "invalid value for spec.strategy.type"
noUpdatesRequired == "No updates required"
removingOldMachine == "Removing old machine"
waitingForReady == "Waiting for machine to become ready"
waitingForRemoved == "Waiting for machine to be removed"
waitingForReplacement == "Waiting for replacement machine to become ready"

conditionDegraded == "Degraded"
reasonInvalidStrategy == "InvalidStrategy"
ConditionTrue == "True"
ConditionFalse == "False"

\* Conditions found on the ControlPlaneMachineSet before the invocation.
AvailableCondition ==
  [type |-> "Available", status |-> ConditionTrue, reason |-> "AllReplicasAvailable", message |-> ""]
DegradedFalseCondition ==
  [type |-> conditionDegraded, status |-> ConditionFalse, reason |-> "AsExpected", message |-> ""]
InitialConditions == {<<>>, <<AvailableCondition, DegradedFalseCondition>>}

CreateMachineCall(idx) == [op |-> "CreateMachine", index |-> idx, pos |-> 0]
DeleteMachineCall(idx, pos) == [op |-> "DeleteMachine", index |-> idx, pos |-> pos]

VARIABLES
  machines,    \* the store: index -> sequence of MachineInfo, as observed
  replicas,    \* cpms.Spec.Replicas: <<>> (nil) or <<n>>
  strategy,    \* cpms.Spec.Strategy.Type
  conditions,  \* cpms.Status.Conditions
  pc,          \* "idle", "done" (the invocation returned) or "panicked"
  seen,        \* the indexed observation handed to the last invocation
  calls,       \* the machine provider calls the last invocation made
  logs,        \* the messages the last invocation logged
  decided,     \* the loop and index the last invocation's logger was bound to
  err,         \* whether the last invocation returned a non-nil error
  surgeCount,  \* the value of *surgeCount when the last invocation returned
  lostAcks,    \* the indices of the creates that were applied but reported as failed
  observed,    \* the flat list of MachineInfo handed to the index grouper
  indexed      \* the map the index grouper returned for it

vars == <<machines, replicas, strategy, conditions, pc, seen, calls, logs, decided, err,
          surgeCount, lostAcks, observed, indexed>>

\* ---------------------------------------------------------------- helpers

RECURSIVE SumLen(_)
SumLen(mis) == IF mis = <<>> THEN 0 ELSE Len(Head(mis)) + SumLen(Tail(mis))

RECURSIVE SortInts(_)
SortInts(S) ==
  IF S = {} THEN <<>>
  ELSE LET least == CHOOSE x \in S : \A y \in S : x <= y
       IN <<least>> \o SortInts(S \ {least})

\* Go map lookup: a missing key yields the zero value, a nil slice.
MapLookup(m, k) == IF k \in DOMAIN m THEN m[k] ELSE <<>>

Least(S) == CHOOSE x \in S : \A y \in S : x <= y

\* Position, among the machines of an index, of outdatedMs[0].
FirstOutdatedPos(ms) == Least({p \in 1..Len(ms) : ms[p].needsUpdate})

IsNeedsUpdate(m) == m.needsUpdate

isDeletedMachine_never(m) == FALSE

isDeletedMachine(m) == m.deleted

needUpdateMachines(machinesInfo) == SelectSeq(machinesInfo, IsNeedsUpdate)

IsPending(m) == ~m.ready /\ ~m.needsUpdate
pendingMachines(machinesInfo) == SelectSeq(machinesInfo, IsPending)

IsUpdated(m) == m.ready /\ ~m.needsUpdate
updatedMachines_anyCurrent(machinesInfo) == SelectSeq(machinesInfo, LAMBDA m : ~m.needsUpdate)
updatedMachines(machinesInfo) == SelectSeq(machinesInfo, IsUpdated)

IsReady(m) == m.ready
readyMachines(machinesInfo) == SelectSeq(machinesInfo, IsReady)

hasAny(machinesInfo) == Len(machinesInfo) > 0
empty(machinesInfo) == Len(machinesInfo) = 0

\* keys are collected and sorted, but the slice is filled by looking up the
\* position i of each key (0..len-1), not the key itself.
sortMachineInfos(indexedMachineInfos) ==
  LET keys == SortInts(DOMAIN indexedMachineInfos)
  IN [i \in 1..Len(keys) |-> MapLookup(indexedMachineInfos, i - 1)]

\* replicas is dereferenced by the caller's guard; reps is <<n>> here.
deviseExistingSurge(reps, mis) == SumLen(mis) - reps[1]

maxSurge == 1

\* ---------------------------------------------------------------- machine provider

NewMachineInfo == [ready |-> FALSE, needsUpdate |-> FALSE, deleted |-> FALSE]

\* CreateMachine(index): the store accepts a new machine at the index; its
\* readiness is observed separately.
ProviderCreateMachine(store, idx) ==
  IF idx \in DOMAIN store
  THEN [store EXCEPT ![idx] = Append(@, NewMachineInfo)]
  ELSE (idx :> <<NewMachineInfo>>) @@ store

\* DeleteMachine(ref): the removal is accepted, the machine carries a deletion
\* timestamp from then on.
ProviderDeleteMachine(store, idx, pos) ==
  [store EXCEPT ![idx] = [@ EXCEPT ![pos] = [@ EXCEPT !.deleted = TRUE]]]

\* ---------------------------------------------------------------- engine

\* What one invocation has done so far: the calls made, the messages logged,
\* the index its logger is bound to, the error it returns, the conditions of
\* the owner, the surge counter, and the provider's store.
NewInvocation(conds, store) ==
  [calls |-> <<>>, logs |-> <<>>, decided |-> <<>>, err |-> FALSE,
   conditions |-> conds, surgeCount |-> 0, store |-> store, panicked |-> FALSE]

LogInfo(st, msg) == [st EXCEPT !.logs = Append(@, msg)]

\* logger.WithValues("index", idx, ...): the loop (phase) and the index the
\* invocation settles on.
WithIndex(st, phase, idx) == [st EXCEPT !.decided = <<[phase |-> phase, index |-> idx]>>]

deleteMachine_retry(st, idx, pos, providerErr) ==
  IF providerErr
  THEN [st EXCEPT !.calls = @ \o <<DeleteMachineCall(idx, pos), DeleteMachineCall(idx, pos)>>,
                  !.logs = Append(@, errorDeletingMachine),
                  !.err = TRUE]
  ELSE [st EXCEPT !.calls = Append(@, DeleteMachineCall(idx, pos)),
                  !.store = ProviderDeleteMachine(@, idx, pos),
                  !.logs = Append(@, removingOldMachine)]

deleteMachine(st, idx, pos, providerErr) ==
  IF providerErr
  THEN [st EXCEPT !.calls = Append(@, DeleteMachineCall(idx, pos)),
                  !.logs = Append(@, errorDeletingMachine),
                  !.err = TRUE]
  ELSE [st EXCEPT !.calls = Append(@, DeleteMachineCall(idx, pos)),
                  !.store = ProviderDeleteMachine(@, idx, pos),
                  !.logs = Append(@, removingOldMachine)]

createMachine_swallowsError(st, idx, maxSurgeArg, providerErr) ==
  IF st.surgeCount < maxSurgeArg
  THEN IF providerErr
       THEN [st EXCEPT !.calls = Append(@, CreateMachineCall(idx)),
                       !.logs = Append(@, errorCreatingMachine)]
       ELSE [st EXCEPT !.calls = Append(@, CreateMachineCall(idx)),
                       !.store = ProviderCreateMachine(@, idx),
                       !.logs = Append(@, createdReplacement),
                       !.surgeCount = @ + 1]
  ELSE st

createMachine(st, idx, maxSurgeArg, providerErr) ==
  IF st.surgeCount < maxSurgeArg
  THEN IF providerErr
       THEN [st EXCEPT !.calls = Append(@, CreateMachineCall(idx)),
                       !.logs = Append(@, errorCreatingMachine),
                       !.err = TRUE]
       ELSE [st EXCEPT !.calls = Append(@, CreateMachineCall(idx)),
                       !.store = ProviderCreateMachine(@, idx),
                       !.logs = Append(@, createdReplacement),
                       !.surgeCount = @ + 1]
  ELSE st

reconcileOutdatedIndex_noPendingCheck(st0, idx, machinesAtIdx, providerErr) ==
  LET outdatedMs == needUpdateMachines(machinesAtIdx)
      outdatedMachine == outdatedMs[1]
      pos == FirstOutdatedPos(machinesAtIdx)
      st == WithIndex(st0, "C", idx)
  IN IF hasAny(updatedMachines(machinesAtIdx))
     THEN IF ~isDeletedMachine(outdatedMachine)
          THEN deleteMachine(st, idx, pos, providerErr)
          ELSE LogInfo(st, waitingForRemoved)
     ELSE createMachine(st, idx, maxSurge, providerErr)

\* The body of the third loop for the first index that holds an outdated machine.
reconcileOutdatedIndex(st0, idx, machinesAtIdx, providerErr) ==
  LET outdatedMs == needUpdateMachines(machinesAtIdx)
      outdatedMachine == outdatedMs[1]
      pos == FirstOutdatedPos(machinesAtIdx)
      st == WithIndex(st0, "C", idx)
  IN IF hasAny(updatedMachines(machinesAtIdx))
     THEN IF ~isDeletedMachine(outdatedMachine)
          THEN deleteMachine(st, idx, pos, providerErr)
          ELSE LogInfo(st, waitingForRemoved)
     ELSE IF hasAny(pendingMachines(machinesAtIdx))
          THEN LogInfo(st, waitingForReplacement)
          ELSE createMachine(st, idx, maxSurge, providerErr)

reconcileMachineRollingUpdate_deleteFirst(st0, reps, indexedMachineInfos, providerErr) ==
  LET sortedIndexedMs == sortMachineInfos(indexedMachineInfos)
      idxs == 0..(Len(sortedIndexedMs) - 1)
      at(idx) == sortedIndexedMs[idx + 1]
      st == [st0 EXCEPT !.surgeCount = deviseExistingSurge(reps, sortedIndexedMs)]
      emptyIdxs == {idx \in idxs : empty(at(idx))}
      waitIdxs == {idx \in idxs : empty(readyMachines(at(idx))) /\ hasAny(pendingMachines(at(idx)))}
      liveOutdatedIdxs == {idx \in idxs : hasAny(needUpdateMachines(at(idx)))
                                           /\ ~isDeletedMachine(needUpdateMachines(at(idx))[1])}
  IN IF reps = <<>>
     THEN [st0 EXCEPT !.panicked = TRUE]
     ELSE IF emptyIdxs # {}
     THEN createMachine(WithIndex(st, "A", Least(emptyIdxs)), Least(emptyIdxs), maxSurge, providerErr)
     ELSE IF waitIdxs # {}
     THEN LogInfo(WithIndex(st, "B", Least(waitIdxs)), waitingForReady)
     ELSE IF liveOutdatedIdxs # {}
     THEN deleteMachine(WithIndex(st, "C", Least(liveOutdatedIdxs)), Least(liveOutdatedIdxs),
                        FirstOutdatedPos(at(Least(liveOutdatedIdxs))), providerErr)
     ELSE LogInfo(st, noUpdatesRequired)

reconcileMachineRollingUpdate(st0, reps, indexedMachineInfos, providerErr) ==
  LET sortedIndexedMs == sortMachineInfos(indexedMachineInfos)
      idxs == 0..(Len(sortedIndexedMs) - 1)
      at(idx) == sortedIndexedMs[idx + 1]
      st == [st0 EXCEPT !.surgeCount = deviseExistingSurge(reps, sortedIndexedMs)]
      emptyIdxs == {idx \in idxs : empty(at(idx))}
      waitIdxs == {idx \in idxs : empty(readyMachines(at(idx))) /\ hasAny(pendingMachines(at(idx)))}
      outdatedIdxs == {idx \in idxs : hasAny(needUpdateMachines(at(idx)))}
  IN IF reps = <<>>
     THEN \* int(*cpms.Spec.Replicas) on a nil pointer
          [st0 EXCEPT !.panicked = TRUE]
     ELSE IF emptyIdxs # {}
     THEN createMachine(WithIndex(st, "A", Least(emptyIdxs)), Least(emptyIdxs), maxSurge, providerErr)
     ELSE IF waitIdxs # {}
     THEN LogInfo(WithIndex(st, "B", Least(waitIdxs)), waitingForReady)
     ELSE IF outdatedIdxs # {}
     THEN reconcileOutdatedIndex(st, Least(outdatedIdxs), at(Least(outdatedIdxs)), providerErr)
     ELSE LogInfo(st, noUpdatesRequired)

reconcileMachineOnDeleteUpdate_asRolling(st, reps, indexedMachineInfos, providerErr) ==
  reconcileMachineRollingUpdate(st, reps, indexedMachineInfos, providerErr)

\* The body is a single return of (ctrl.Result{}, nil): no call, no log, no
\* condition, whatever the observation holds.
reconcileMachineOnDeleteUpdate(st, reps, indexedMachineInfos, providerErr) == st

\* meta.SetStatusCondition: the condition of the same type is overwritten in
\* place, a new type is appended.
SetStatusCondition(conds, new) ==
  IF \E i \in 1..Len(conds) : conds[i].type = new.type
  THEN [i \in 1..Len(conds) |-> IF conds[i].type = new.type THEN new ELSE conds[i]]
  ELSE Append(conds, new)

InvalidStrategyCondition(strat) ==
  [type |-> conditionDegraded, status |-> ConditionTrue, reason |-> reasonInvalidStrategy,
   message |-> IF strat = Recreate
               THEN "invalid value for spec.strategy.type: update strategy \"Recreate\" is not supported"
               ELSE "invalid value for spec.strategy.type: unknown update strategy: Bogus"]

reconcileMachineUpdates_logOnly(st, strat, reps, machineInfos, providerErr) ==
  IF strat = RollingUpdate
  THEN reconcileMachineRollingUpdate(st, reps, machineInfos, providerErr)
  ELSE IF strat = OnDelete
  THEN reconcileMachineOnDeleteUpdate(st, reps, machineInfos, providerErr)
  ELSE LogInfo(st, invalidStrategyMessage)

reconcileMachineUpdates(st, strat, reps, machineInfos, providerErr) ==
  IF strat = RollingUpdate
  THEN reconcileMachineRollingUpdate(st, reps, machineInfos, providerErr)
  ELSE IF strat = OnDelete
  THEN reconcileMachineOnDeleteUpdate(st, reps, machineInfos, providerErr)
  ELSE LogInfo([st EXCEPT !.conditions = SetStatusCondition(@, InvalidStrategyCondition(strat))],
               invalidStrategyMessage)

\* ---------------------------------------------------------------- initial states

\* Sum of a map of lengths over its keys.
RECURSIVE SumOver(_, _)
SumOver(lens, K) ==
  IF K = {} THEN 0
  ELSE LET k == CHOOSE x \in K : TRUE IN lens[k] + SumOver(lens, K \ {k})

TotalMachines(obs) == SumOver([k \in DOMAIN obs |-> Len(obs[k])], DOMAIN obs)

\* machines is some indexed observation with keys among Indices that holds at
\* most budget machines: a key set, a length for each key, and the machines
\* themselves, dealt to the keys in ascending order.
SomeObservation(budget) ==
  \E K \in SUBSET Indices :
    \E lens \in {l \in [K -> 0..budget] : SumOver(l, K) <= budget} :
      \E ms \in [1..SumOver(lens, K) -> MachineInfo] :
        machines = [k \in K |->
                      LET before == SumOver(lens, {j \in K : j < k})
                      IN SubSeq(ms, before + 1, before + lens[k])]

\* The two engines are started on every observation of up to MaxMachines
\* machines; the dispatcher's invalid-strategy branches, which never read the
\* observation, on those of up to MaxMachines - 1, with and without conditions
\* already present on the owner.
Init ==
  /\ strategy \in Strategies
  /\ replicas \in ReplicasValues
  /\ IF strategy \in {RollingUpdate, OnDelete}
     THEN SomeObservation(MaxMachines) /\ conditions = <<>>
     ELSE SomeObservation(MaxMachines - 1) /\ conditions \in InitialConditions
  /\ pc = "idle"
  /\ seen = <<>>
  /\ calls = <<>>
  /\ logs = <<>>
  /\ decided = <<>>
  /\ err = FALSE
  /\ surgeCount = 0
  /\ lostAcks = {}
  /\ observed = <<>>
  /\ indexed = <<>>

\* ---------------------------------------------------------------- actions

\* One invocation of the engine on the current observation; the provider call
\* it makes, if any, fails (providerErr) or is applied to the store.
Reconcile(providerErr) ==
  /\ pc = "idle"
  /\ LET res == reconcileMachineUpdates(NewInvocation(conditions, machines),
                                        strategy, replicas, machines, providerErr)
     IN /\ seen' = machines
        /\ machines' = res.store
        /\ calls' = res.calls
        /\ logs' = res.logs
        /\ decided' = res.decided
        /\ err' = res.err
        /\ surgeCount' = res.surgeCount
        /\ conditions' = res.conditions
        /\ pc' = IF res.panicked THEN "panicked" ELSE "done"
  /\ UNCHANGED <<replicas, strategy, lostAcks, observed, indexed>>

ReconcileMachineUpdates == \E providerErr \in BOOLEAN : Reconcile(providerErr)

Next == ReconcileMachineUpdates

Spec == Init /\ [][Next]_vars

\* ---------------------------------------------------------------- closed loop

\* The outer loop takes the result and will invoke the engine again on a fresh
\* observation.
Requeue ==
  /\ pc = "done"
  /\ pc' = "idle"
  /\ seen' = <<>>
  /\ calls' = <<>>
  /\ logs' = <<>>
  /\ decided' = <<>>
  /\ err' = FALSE
  /\ surgeCount' = 0
  /\ UNCHANGED <<machines, replicas, strategy, conditions, lostAcks, observed, indexed>>

SetField(store, k, p, m) == [store EXCEPT ![k] = [@ EXCEPT ![p] = m]]

RemoveAt(ms, p) == SubSeq(ms, 1, p - 1) \o SubSeq(ms, p + 1, Len(ms))

\* Between invocations a machine becomes ready.
MachineBecomesReady ==
  /\ pc = "idle"
  /\ \E k \in DOMAIN machines : \E p \in 1..Len(machines[k]) :
       /\ ~machines[k][p].ready
       /\ machines' = SetField(machines, k, p, [machines[k][p] EXCEPT !.ready = TRUE])
  /\ UNCHANGED <<replicas, strategy, conditions, pc, seen, calls, logs, decided, err,
                 surgeCount, lostAcks, observed, indexed>>

\* Between invocations a machine is found to need an update.
MachineNeedsUpdate ==
  /\ pc = "idle"
  /\ \E k \in DOMAIN machines : \E p \in 1..Len(machines[k]) :
       /\ ~machines[k][p].needsUpdate
       /\ machines' = SetField(machines, k, p, [machines[k][p] EXCEPT !.needsUpdate = TRUE])
  /\ UNCHANGED <<replicas, strategy, conditions, pc, seen, calls, logs, decided, err,
                 surgeCount, lostAcks, observed, indexed>>

\* Between invocations a machine that carries a deletion timestamp goes away.
MachineRemoved ==
  /\ pc = "idle"
  /\ \E k \in DOMAIN machines : \E p \in 1..Len(machines[k]) :
       /\ machines[k][p].deleted
       /\ machines' = [machines EXCEPT ![k] = RemoveAt(@, p)]
  /\ UNCHANGED <<replicas, strategy, conditions, pc, seen, calls, logs, decided, err,
                 surgeCount, lostAcks, observed, indexed>>

\* Serialized RollingUpdate invocations, each on a fresh observation, started
\* with at most replicas + maxSurge machines.
InitLoop ==
  /\ Init
  /\ strategy = RollingUpdate
  /\ replicas # <<>>
  /\ TotalMachines(machines) <= replicas[1] + maxSurge

NextLoop ==
  \/ ReconcileMachineUpdates
  \/ Requeue
  \/ MachineBecomesReady
  \/ MachineNeedsUpdate
  \/ MachineRemoved

SpecLoop == InitLoop /\ [][NextLoop]_vars

\* ---------------------------------------------------------------- engine-only deletions

\* The closed loop started from a store in which no machine carries a deletion
\* timestamp: every deletion timestamp is then one the engine asked for.
InitQuorum ==
  /\ InitLoop
  /\ \A k \in DOMAIN machines : \A p \in 1..Len(machines[k]) : ~machines[k][p].deleted

SpecQuorum == InitQuorum /\ [][NextLoop]_vars

\* ---------------------------------------------------------------- lost acknowledgement

\* An invocation whose CreateMachine call is applied to the store although the
\* provider reports it to the engine as failed.
ReconcileLostAck ==
  /\ pc = "idle"
  /\ LET res == reconcileMachineUpdates(NewInvocation(conditions, machines),
                                        strategy, replicas, machines, TRUE)
     IN /\ ~res.panicked
        /\ Len(res.calls) = 1
        /\ res.calls[1].op = "CreateMachine"
        /\ seen' = machines
        /\ machines' = ProviderCreateMachine(machines, res.calls[1].index)
        /\ lostAcks' = lostAcks \cup {res.calls[1].index}
        /\ calls' = res.calls
        /\ logs' = res.logs
        /\ decided' = res.decided
        /\ err' = res.err
        /\ surgeCount' = res.surgeCount
        /\ conditions' = res.conditions
        /\ pc' = "done"
  /\ UNCHANGED <<replicas, strategy, observed, indexed>>

NextLostAck ==
  \/ ReconcileMachineUpdates
  \/ ReconcileLostAck
  \/ Requeue
  \/ MachineBecomesReady
  \/ MachineNeedsUpdate
  \/ MachineRemoved

SpecLostAck == InitLoop /\ [][NextLostAck]_vars

\* ---------------------------------------------------------------- feedback loop

RECURSIVE WithoutDeleted(_)
WithoutDeleted(ms) ==
  IF ms = <<>> THEN <<>>
  ELSE IF Head(ms).deleted THEN WithoutDeleted(Tail(ms))
  ELSE <<[Head(ms) EXCEPT !.ready = TRUE]>> \o WithoutDeleted(Tail(ms))

\* The observation after the hypothetical immediate transitions: every machine
\* is ready, every machine that carries a deletion timestamp is gone.
Settled(store) == [k \in DOMAIN store |-> WithoutDeleted(store[k])]

ReconcileProviderOK == Reconcile(FALSE)

FeedBack ==
  /\ pc = "done"
  /\ machines' = Settled(machines)
  /\ pc' = "idle"
  /\ seen' = <<>>
  /\ calls' = <<>>
  /\ logs' = <<>>
  /\ decided' = <<>>
  /\ err' = FALSE
  /\ surgeCount' = 0
  /\ UNCHANGED <<replicas, strategy, conditions, lostAcks, observed, indexed>>

InitConverge ==
  /\ Init
  /\ strategy = RollingUpdate
  /\ replicas # <<>>

NextConverge == ReconcileProviderOK \/ FeedBack

SpecConverge == InitConverge /\ [][NextConverge]_vars /\ WF_vars(NextConverge)

\* ---------------------------------------------------------------- index grouper

\* A MachineInfo together with the index it declares.
IndexedMachineInfo ==
  [index : Indices, ready : BOOLEAN, needsUpdate : BOOLEAN, deleted : BOOLEAN]

\* Flat lists of up to MaxMachines machines.
MachineInfoLists == UNION {[1..n -> IndexedMachineInfo] : n \in 0..MaxMachines}

\* out := make(map[int32][]MachineInfo); the conversion itself is left as a
\* TODO, and the empty map is returned.
machineInfosByIndex(machineInfos) == <<>>

InitGrouper ==
  /\ observed \in MachineInfoLists
  /\ indexed = <<>>
  /\ pc = "idle"
  /\ machines = <<>>
  /\ replicas = <<>>
  /\ strategy = RollingUpdate
  /\ conditions = <<>>
  /\ seen = <<>>
  /\ calls = <<>>
  /\ logs = <<>>
  /\ decided = <<>>
  /\ err = FALSE
  /\ surgeCount = 0
  /\ lostAcks = {}

\* The dispatcher's first statement: the flat list is grouped by index.
GroupMachineInfos ==
  /\ pc = "idle"
  /\ indexed' = machineInfosByIndex(observed)
  /\ pc' = "grouped"
  /\ UNCHANGED <<machines, replicas, strategy, conditions, seen, calls, logs, decided, err,
                 surgeCount, lostAcks, observed>>

NextGrouper == GroupMachineInfos

SpecGrouper == InitGrouper /\ [][NextGrouper]_vars

\* ---------------------------------------------------------------- properties

Returned == pc = "done"
RollingInvocation == pc # "idle" /\ strategy = RollingUpdate

CreatesCalled == {i \in 1..Len(calls) : calls[i].op = "CreateMachine"}
DeletesCalled == {i \in 1..Len(calls) : calls[i].op = "DeleteMachine"}

\* An index whose machines include an updated one and whose first outdated
\* member carries no deletion timestamp.
Deletable(ms) ==
  /\ hasAny(updatedMachines(ms))
  /\ hasAny(needUpdateMachines(ms))
  /\ ~isDeletedMachine(needUpdateMachines(ms)[1])

\* Surge of the observation handed to the invocation, over all its keys.
ObservedSurge == TotalMachines(seen) - replicas[1]

\* The keys of the observation that match the loop named by phase.
MatchingKeys(phase) ==
  {k \in DOMAIN seen :
     IF phase = "A" THEN empty(seen[k])
     ELSE IF phase = "B" THEN empty(readyMachines(seen[k])) /\ hasAny(pendingMachines(seen[k]))
     ELSE hasAny(needUpdateMachines(seen[k]))}

DegradedSet(conds) == {i \in 1..Len(conds) : conds[i].type = conditionDegraded}

\* C1: a RollingUpdate invocation makes at most one machine provider call in
\* total, on any observation and any desired replica count.
C1_SingleAction == RollingInvocation => Len(calls) <= 1

\* A create was called although another index held a machine ready for deletion.
C1_Witness ==
  /\ RollingInvocation
  /\ Len(calls) = 1
  /\ calls[1].op = "CreateMachine"
  /\ \E k \in DOMAIN seen : Deletable(seen[k])

\* C2: a DeleteMachine call on a machine observed at index i implies that the
\* observation holds, at index i, a machine that is ready and needs no update.
C2_CreateBeforeDelete ==
  RollingInvocation =>
    \A i \in DeletesCalled :
      /\ calls[i].index \in DOMAIN seen
      /\ calls[i].pos \in 1..Len(seen[calls[i].index])
      /\ \E p \in 1..Len(seen[calls[i].index]) :
           seen[calls[i].index][p].ready /\ ~seen[calls[i].index][p].needsUpdate

\* A delete was called and accepted: the outdated machine carries a deletion
\* timestamp in the store from then on.
C2_Witness ==
  /\ RollingInvocation
  /\ DeletesCalled # {}
  /\ ~err
  /\ ~seen[calls[1].index][calls[1].pos].deleted
  /\ machines[calls[1].index][calls[1].pos].deleted

\* C3: on an observation whose surge (all machines of all keys, minus the
\* desired replicas) has reached maxSurge, no CreateMachine is called.
C3_SurgeBound ==
  (RollingInvocation /\ replicas # <<>> /\ ObservedSurge >= maxSurge) => CreatesCalled = {}

\* C4: started with at most replicas + maxSurge machines, the store never
\* holds more than replicas + maxSurge machines.
C4_AtMostOneSurge == TotalMachines(machines) <= replicas[1] + maxSurge

\* C5: fed back its own results, the engine is never stuck in a no-op other
\* than noUpdatesRequired: an invocation that makes no call and leaves an
\* observation the feedback does not change has logged noUpdatesRequired.
C5_NoStuckNoOp ==
  (Returned /\ calls = <<>> /\ Settled(machines) = machines) => logs = <<noUpdatesRequired>>

\* C6: with the surge at maxSurge a create is refused without a call, and that
\* does not stop deletions: an index holding an updated machine and a first
\* outdated member without deletion timestamp gets a DeleteMachine call,
\* whatever the other indices hold.
C6_DeletionsNotGated ==
  (/\ Returned /\ strategy = RollingUpdate /\ replicas # <<>>
   /\ ObservedSurge >= maxSurge
   /\ CreatesCalled = {}
   /\ \E k \in DOMAIN seen : Deletable(seen[k]))
  => DeletesCalled # {}

\* C7: when two or more keys of the observation match the loop in which the
\* invocation settles, it settles on the least of them.
C7_IndexPriority ==
  (Returned /\ strategy = RollingUpdate /\ decided # <<>>
   /\ Cardinality(MatchingKeys(decided[1].phase)) >= 2)
  => decided[1].index = Least(MatchingKeys(decided[1].phase))

\* C8: a CreateMachine call targets a key of the observation.
C8_CreateAtObservedKey ==
  RollingInvocation => \A i \in CreatesCalled : calls[i].index \in DOMAIN seen

C10_UnsetReplicas ==
  replicas = <<>> =>
    /\ pc # "panicked"
    /\ Returned =>
         /\ calls = <<>>
         /\ ~err
         /\ \E i \in DegradedSet(conditions) : conditions[i].status = ConditionTrue

OnDeleteInvocation == pc # "idle" /\ strategy = OnDelete

\* C11: under OnDelete no invocation, on any observation, calls DeleteMachine,
\* and no machine of the store gains a deletion timestamp.
C11_OnDeleteNeverDeletes ==
  OnDeleteInvocation => (DeletesCalled = {} /\ machines = seen)

\* An OnDelete invocation returned on an observation with keys 0..n-1 where an
\* index holds a live outdated machine and a ready updated replacement.
C11_Witness ==
  /\ OnDeleteInvocation
  /\ Returned
  /\ replicas # <<>>
  /\ DOMAIN seen = 0..(Cardinality(DOMAIN seen) - 1)
  /\ \E k \in DOMAIN seen : Deletable(seen[k])

\* The keys of the observation whose first outdated machine carries a deletion
\* timestamp and that hold neither an updated nor a pending machine.
DeletedWithoutReplacement ==
  {k \in DOMAIN seen :
     /\ hasAny(needUpdateMachines(seen[k]))
     /\ isDeletedMachine(needUpdateMachines(seen[k])[1])
     /\ empty(updatedMachines(seen[k]))
     /\ empty(pendingMachines(seen[k]))}

\* C12: under OnDelete with the observed surge below maxSurge, the invocation
\* calls CreateMachine for the lowest empty index, otherwise for the lowest
\* index whose first outdated machine carries a deletion timestamp and that has
\* no updated or pending replacement, and otherwise makes no create.
C12_OnDeleteCreates ==
  (Returned /\ strategy = OnDelete /\ replicas # <<>> /\ ObservedSurge < maxSurge) =>
    IF MatchingKeys("A") # {}
    THEN \E i \in CreatesCalled : calls[i].index = Least(MatchingKeys("A"))
    ELSE IF DeletedWithoutReplacement # {}
    THEN \E i \in CreatesCalled : calls[i].index = Least(DeletedWithoutReplacement)
    ELSE CreatesCalled = {}

\* How often the element e occurs in the flat list, and in the map under key k.
OccurrencesObserved(e) == Cardinality({i \in 1..Len(observed) : observed[i] = e})
OccurrencesIndexed(e, k) ==
  IF k \in DOMAIN indexed THEN Cardinality({p \in 1..Len(indexed[k]) : indexed[k][p] = e}) ELSE 0

\* C13: the map returned by machineInfosByIndex holds every element of the
\* flat list exactly as often as the list does, under the key equal to its
\* declared index, and holds nothing else.
C13_GrouperContract ==
  pc = "grouped" =>
    /\ \A e \in IndexedMachineInfo :
         OccurrencesIndexed(e, e.index) = OccurrencesObserved(e)
    /\ \A k \in DOMAIN indexed : \A p \in 1..Len(indexed[k]) :
         indexed[k][p] \in IndexedMachineInfo /\ indexed[k][p].index = k

\* An observation on which no loop of the engine should settle: every index
\* holds a machine, no machine needs an update, and no index holds only
\* machines that are not ready.
NoUpdatesObservation(obs) ==
  \A k \in DOMAIN obs :
    /\ hasAny(obs[k])
    /\ empty(needUpdateMachines(obs[k]))
    /\ hasAny(readyMachines(obs[k])) \/ empty(pendingMachines(obs[k]))

\* C14: every invocation of a series of RollingUpdate invocations that is
\* handed an observation where every index is non-empty, no machine needs an
\* update and no index has only pending machines makes no provider call,
\* returns no error, logs noUpdatesRequired and leaves the store as observed
\* (so that the next invocation is handed the same observation).
C14_NoOpIdempotent ==
  (Returned /\ strategy = RollingUpdate /\ NoUpdatesObservation(seen)) =>
    /\ calls = <<>>
    /\ ~err
    /\ logs = <<noUpdatesRequired>>
    /\ machines = seen

WaitLogs == {waitingForReady, waitingForRemoved, waitingForReplacement}

\* C15: within one RollingUpdate invocation the loops are tried in order. If a
\* key of the observation is empty, the invocation settles in the first loop
\* and neither deletes nor waits; otherwise, if a key has a pending machine and
\* no ready one, it logs waitingForReady and makes no call; otherwise, if a key
\* holds an outdated machine, it settles in the third loop; and only otherwise
\* it logs noUpdatesRequired.
C15_PhaseOrdering ==
  (Returned /\ strategy = RollingUpdate) =>
    IF MatchingKeys("A") # {}
    THEN /\ decided # <<>> /\ decided[1].phase = "A"
         /\ DeletesCalled = {}
         /\ \A i \in 1..Len(logs) : logs[i] \notin WaitLogs
    ELSE IF MatchingKeys("B") # {}
    THEN logs = <<waitingForReady>> /\ calls = <<>>
    ELSE IF MatchingKeys("C") # {}
    THEN decided # <<>> /\ decided[1].phase = "C"
    ELSE logs = <<noUpdatesRequired>> /\ calls = <<>>

\* C16: when no key of the observation is empty or holds only pending
\* machines, the lowest key k that holds an outdated machine is acted on
\* according to its first outdated member m: with an updated machine at k,
\* DeleteMachine(m) if m has no deletion timestamp and waitingForRemoved if it
\* has one; without one but with a pending machine, waitingForReplacement;
\* otherwise CreateMachine(k) if the surge allows it and nothing if not.
C16_PhaseCTable ==
  (/\ Returned /\ strategy = RollingUpdate
   /\ MatchingKeys("A") = {} /\ MatchingKeys("B") = {} /\ MatchingKeys("C") # {})
  => LET k == Least(MatchingKeys("C"))
         p == FirstOutdatedPos(seen[k])
     IN IF hasAny(updatedMachines(seen[k]))
        THEN IF ~isDeletedMachine(seen[k][p])
             THEN calls = <<DeleteMachineCall(k, p)>>
             ELSE calls = <<>> /\ logs = <<waitingForRemoved>>
        ELSE IF hasAny(pendingMachines(seen[k]))
        THEN calls = <<>> /\ logs = <<waitingForReplacement>>
        ELSE IF ObservedSurge < maxSurge
        THEN calls = <<CreateMachineCall(k)>>
        ELSE calls = <<>>

\* The call the invocation made was not applied by the provider.
CallFailed == calls # <<>> /\ machines = seen

\* C17: a RollingUpdate invocation returns an error exactly when the provider
\* call it made failed; it then has made that one call only and has not counted
\* a failed create in the surge; an invocation that waits or finds nothing to
\* do returns no error.
C17_ProviderErrors ==
  (Returned /\ strategy = RollingUpdate) =>
    /\ err <=> CallFailed
    /\ err => /\ Len(calls) = 1
              /\ surgeCount = deviseExistingSurge(replicas, sortMachineInfos(seen))
    /\ (calls = <<>>) => ~err

\* A create was allowed by the surge, called, and failed.
C17_Witness ==
  /\ Returned
  /\ strategy = RollingUpdate
  /\ err
  /\ calls = <<CreateMachineCall(calls[1].index)>>
  /\ surgeCount = maxSurge - 1
  /\ logs = <<errorCreatingMachine>>

\* C18: once a create has been applied but reported as failed, no RollingUpdate
\* invocation calls CreateMachine for that index while its observation holds a
\* machine there that needs no update, and the store never holds more than
\* replicas + maxSurge machines.
C18_LostAckTolerated ==
  lostAcks # {} =>
    /\ (pc # "idle") =>
         \A i \in CreatesCalled :
           ~(/\ calls[i].index \in lostAcks
             /\ calls[i].index \in DOMAIN seen
             /\ \E p \in 1..Len(seen[calls[i].index]) : ~seen[calls[i].index][p].needsUpdate)
    /\ TotalMachines(machines) <= replicas[1] + maxSurge

\* The machines of an index include one that is ready and carries no deletion
\* timestamp.
HasReadyLive(store, k) ==
  k \in DOMAIN store /\ \E p \in 1..Len(store[k]) : store[k][p].ready /\ ~store[k][p].deleted

QuorumKept == \A k \in DOMAIN machines : HasReadyLive(machines, k) => HasReadyLive(machines', k)

\* C19: in the closed loop in which every deletion is one the engine asked
\* for and readiness is not lost, an index that holds a ready machine without
\* deletion timestamp holds one after every step: the engine's delete never
\* takes the last ready machine of an index.
C19_QuorumPreserved == [][QuorumKept]_vars

\* The engine's delete of a ready outdated machine was accepted, and the index
\* still holds a ready machine without deletion timestamp.
C19_Witness ==
  /\ Returned
  /\ DeletesCalled # {}
  /\ ~err
  /\ seen[calls[1].index][calls[1].pos].ready
  /\ machines[calls[1].index][calls[1].pos].deleted
  /\ HasReadyLive(machines, calls[1].index)

\* C20: a RollingUpdate invocation that calls CreateMachine for index i was
\* handed an observation that holds, at index i, no machine with
\* needsUpdate = false: neither an updated nor a pending one.
C20_NoSecondReplacement ==
  RollingInvocation =>
    \A i \in CreatesCalled :
      \A p \in 1..Len(MapLookup(seen, calls[i].index)) :
        seen[calls[i].index][p].needsUpdate

\* A create was called for an index at which the observation holds machines,
\* all of them outdated.
C20_Witness ==
  /\ RollingInvocation
  /\ CreatesCalled # {}
  /\ calls[1].index \in DOMAIN seen
  /\ hasAny(seen[calls[1].index])
  /\ decided[1].phase = "C"

\* C21: every DeleteMachine call the engine makes targets a machine of the
\* observation that needs an update and carries no deletion timestamp: never
\* an updated or pending machine, never a machine already marked for deletion.
C21_DeleteLiveOutdated ==
  pc # "idle" =>
    \A i \in DeletesCalled :
      /\ calls[i].index \in DOMAIN seen
      /\ calls[i].pos \in 1..Len(seen[calls[i].index])
      /\ seen[calls[i].index][calls[i].pos].needsUpdate
      /\ ~seen[calls[i].index][calls[i].pos].deleted

\* A delete was called for the second machine of an index whose first machine
\* is the updated replacement.
C21_Witness ==
  /\ RollingInvocation
  /\ Len(calls) = 1
  /\ calls = <<DeleteMachineCall(calls[1].index, 2)>>
  /\ IsUpdated(seen[calls[1].index][1])
  /\ logs \in {<<removingOldMachine>>, <<errorDeletingMachine>>}

====
